---- MODULE Spec2Model ----
(***************************************************************************)
(* k-d tree of src/src/point.h (kd::Point<T>, kd::Tree<T>, the stackless   *)
(* TreeIterator, findNN_brute_force and the pruned findNN / findNN_),      *)
(* driven as src/src/nearest_neighbor.cpp drives it: a vector of points is *)
(* filled, a tree is constructed from it (which moves the points out of    *)
(* the vector), the tree is iterated and queried.                          *)
(*                                                                         *)
(* A Point is the pair (dims_, data_): data_ is a pointer into `heap`,     *)
(* which maps every live T[] array to its coordinates.  Tree nodes live in *)
(* `nodes`, addressed by pointer (a positive integer; NullPtr is nullptr). *)
(* The recursion of RecursiveInit and of findNN_ is an explicit call stack.*)
(***************************************************************************)
EXTENDS Integers, Sequences, FiniteSets, TLC

\* ---------------------------------------------------------------- bounds
MaxN == 3        \* longest generated input vector
PoolSize == 5    \* how many points of Pool the inputs and queries draw from

\* ------------------------------------------------------ program constants
NullPtr == 0                 \* nullptr
Uninit == -1                 \* a pointer/int member that Tree() {} left unset
TMax == 2147483647           \* std::numeric_limits<int>::max()

VARIABLES
  input,      \* the coordinates main put into the vector (never changes)
  points,     \* std::vector<Point<T>>: the container handed to the Tree
  heap,       \* live T[] arrays: pointer -> sequence of coordinates
  nodes,      \* live Tree<T> objects: pointer -> members
  mode,       \* what the program is doing
  stack,      \* call stack of RecursiveInit / findNN_ frames
  nscans,     \* how many times the size-validation loop has run
  it,         \* TreeIterator::p of the loop in progress
  visited,    \* nodes dereferenced by the loop in progress, in order
  ref_point,  \* the query Point
  best_point, \* const Point<T>* best_point (the node whose split_point it is)
  best_dist,  \* T best_dist
  nnBrute,    \* outcome of findNN_brute_force for ref_point
  nnPruned,   \* outcome of findNN for ref_point
  trace,      \* nodes whose distance findNN_ evaluated, in order
  released    \* nodes whose destructor has completed, in order

vars == <<input, points, heap, nodes, mode, stack, nscans, it, visited,
          ref_point, best_point, best_dist, nnBrute, nnPruned, trace,
          released>>

treeVars == <<points, nodes, nscans>>
queryVars == <<ref_point, best_point, best_dist, nnBrute, nnPruned, trace>>

\* ------------------------------------------------------------ kd::Point
\* Point(): dims_{0}, data_{nullptr}
DefaultPoint == [dims_ |-> 0, data_ |-> NullPtr]

\* the state a Point is left in by Point(Point&&) / operator=(Point&&)
MovedFrom == [dims_ |-> 0, data_ |-> NullPtr]

\* a move that forgets to reset its source
MoveAssign_noreset(rhs) == [to |-> rhs, from |-> rhs]

\* Point::operator=(Point&&) into a Point whose data_ is nullptr: the target
\* steals dims_ and data_, the source is reset
MoveAssign(rhs) == [to |-> rhs, from |-> MovedFrom]

\* coordinates of a live point, as a sequence
Coords(h, p) == IF p.data_ = NullPtr THEN <<>> ELSE h[p.data_]

\* new T[...]: the lowest address that is not live
NewArray(h) ==
  CHOOSE a \in 1..(Cardinality(DOMAIN h) + 1) :
    a \notin DOMAIN h /\ \A b \in 1..(a - 1) : b \in DOMAIN h

RECURSIVE SumSq(_, _, _)
SumSq(a, b, n) ==
  IF n = 0 THEN 0
  ELSE SumSq(a, b, n - 1) + (a[n] - b[n]) * (a[n] - b[n])

\* Point::operator[] : throws std::out_of_range unless 0 <= i < dims_
\* (i is 0-based as in the source)
IndexThrows(p, i) == i < 0 \/ i >= p.dims_
Index(h, p, i) == h[p.data_][i + 1]

\* Point::distance_to : loops i over this->dims_ and reads other[i]; the only
\* check is the one inside other[i]
DistanceThrows(p, other) == \E i \in 0..(p.dims_ - 1) : IndexThrows(other, i)
distance_to(h, p, other) == SumSq(h[p.data_], h[other.data_], p.dims_)

\* ------------------------------------------------------------- inputs
\* the candidate points, of one and of two coordinates; the generated inputs
\* and queries draw from the first PoolSize of them
Pool == << <<0>>, <<1>>, <<0, 0>>, <<0, 1>>, <<1, 0>>, <<1, 1>>,
           <<2, 0>>, <<2>>, <<1, 2>>, <<0, 0, 1>> >>
GenPoints == {Pool[i] : i \in 1..PoolSize}
GenInputs == UNION {[1..n -> GenPoints] : n \in 0..MaxN}

\* main's "wikipedia example" and the query the spec pairs with it
WikipediaPoints == << <<2,3>>, <<5,4>>, <<9,6>>, <<4,7>>, <<8,1>>, <<7,2>> >>
WikipediaQuery == <<9,2>>

Inputs == GenInputs \cup {WikipediaPoints}
Queries == GenPoints \cup {WikipediaQuery}

\* ----------------------------------------------------------------- Init
\* main has filled the vector: slot i owns array i
Init ==
  /\ input \in Inputs
  /\ points = [i \in 1..Len(input) |-> [dims_ |-> Len(input[i]), data_ |-> i]]
  /\ heap = [i \in 1..Len(input) |-> input[i]]
  /\ nodes = << >>
  /\ mode = "start"
  /\ stack = << >>
  /\ nscans = 0
  /\ it = NullPtr
  /\ visited = << >>
  /\ ref_point = DefaultPoint
  /\ best_point = Uninit
  /\ best_dist = 0
  /\ nnBrute = [state |-> "none", point |-> DefaultPoint]
  /\ nnPruned = [state |-> "none", point |-> DefaultPoint]
  /\ trace = << >>
  /\ released = << >>

\* ------------------------------------------------------------- kd::Tree
\* Tree() {} : the pointers and ints are left unset, split_point is Point()
NewTree ==
  [left_child_ |-> Uninit, right_child_ |-> Uninit, parent_ |-> Uninit,
   split_axis_ |-> Uninit, dims_ |-> Uninit, split_point |-> DefaultPoint]

\* new Tree<T>() : the next free node address
NewNode(ns) == Len(ns) + 1

Top == stack[Len(stack)]
Pop == SubSeq(stack, 1, Len(stack) - 1)
SetTop(f) == [stack EXCEPT ![Len(stack)] = f]

\* Tree(Container&& input, int depth = 0): calls RecursiveInit on the whole
\* range at depth 0.  Frame ranges are [lo, hi) over 1-based slots.
Construct ==
  /\ mode = "start"
  /\ nodes' = <<NewTree>>
  /\ stack' = << [node |-> 1, lo |-> 1, hi |-> Len(points) + 1, depth |-> 0,
                  median |-> 0, pc |-> "validate"] >>
  /\ mode' = "constructing"
  /\ UNCHANGED <<input, points, heap, nscans, it, visited>>
  /\ UNCHANGED queryVars
  /\ UNCHANGED released

\* a validation that accepts everything
SizesAgree_none(pts, lo, hi) == TRUE

\* a validation that stops after the second point
SizesAgree_firsttwo(pts, lo, hi) ==
  hi - lo < 2 \/ pts[lo + 1].dims_ = pts[lo].dims_

\* the validation loop of the root call: every size against the first one
SizesAgree(pts, lo, hi) == \A i \in lo..(hi - 1) : pts[i].dims_ = pts[lo].dims_

\* RecursiveInit, "Special case for root": parent_ = nullptr and the assert
\* over all sizes; a failed assert ends the program
RI_Validate ==
  /\ mode = "constructing"
  /\ Top.pc = "validate"
  /\ nscans' = nscans + 1
  /\ nodes' = [nodes EXCEPT ![Top.node].parent_ = NullPtr]
  /\ IF SizesAgree(points, Top.lo, Top.hi)
     THEN /\ stack' = SetTop([Top EXCEPT !.pc = "split"])
          /\ mode' = mode
     ELSE /\ stack' = stack
          /\ mode' = "assert_failed"
  /\ UNCHANGED <<input, points, heap, it, visited>>
  /\ UNCHANGED queryVars
  /\ UNCHANGED released

\* a comparator that orders the other way round
Less_desc(h, a, b, axis) == Index(h, a, axis) > Index(h, b, axis)

\* the comparator of std::sort: a[axis] < b[axis]
Less(h, a, b, axis) == Index(h, a, axis) < Index(h, b, axis)

\* every arrangement std::sort may leave the slots `idxs` in: any order in
\* which no element is Less than an earlier one (std::sort is not stable)
RECURSIVE SortedArrangements(_, _, _, _)
SortedArrangements(h, pts, idxs, axis) ==
  IF idxs = {} THEN {<< >>}
  ELSE LET firsts == {i \in idxs : \A j \in idxs : ~Less(h, pts[j], pts[i], axis)}
       IN UNION {{<<pts[i]>> \o t :
                    t \in SortedArrangements(h, pts, idxs \ {i}, axis)} :
                 i \in firsts}

\* a median iterator that stays at the start of the range
MedianIt_first(lo, hi) == lo

\* a median iterator at the last element of the range
MedianIt_last(lo, hi) == hi - 1

\* a median iterator at the lower median of an even range
MedianIt_lower(lo, hi) == lo + ((hi - lo - 1) \div 2)

\* std::next(points_begin, std::distance(points_begin, points_end) / 2)
MedianIt(lo, hi) == lo + ((hi - lo) \div 2)

\* the comparator throws std::out_of_range when a compared point has no
\* coordinate `axis`; a range of two or more has every element compared
SortThrows(pts, lo, hi, axis) ==
  hi - lo >= 2 /\ \E i \in lo..(hi - 1) : IndexThrows(pts[i], axis)

\* a split axis that never changes
SplitAxis_zero(depth, k) == 0

\* "Select axis based on depth": split_axis_ = depth % dims_
SplitAxis(depth, k) == depth % k

\* RecursiveInit from "dims_ = points_begin->size()" to the move of the
\* median into split_point, on a non-empty range (generated points have at
\* least one coordinate, so depth % dims_ is defined)
RI_Split ==
  /\ mode = "constructing"
  /\ Top.pc = "split"
  /\ Top.lo < Top.hi
  /\ LET f == Top
         k == points[f.lo].dims_
         axis == SplitAxis(f.depth, k)
         m == MedianIt(f.lo, f.hi)
     IN IF SortThrows(points, f.lo, f.hi, axis)
        THEN /\ nodes' = [nodes EXCEPT ![f.node].dims_ = k,
                                       ![f.node].split_axis_ = axis]
             /\ mode' = "out_of_range"
             /\ UNCHANGED <<points, stack>>
        ELSE \E s \in SortedArrangements(heap, points, f.lo..(f.hi - 1), axis) :
               LET sorted == [i \in 1..Len(points) |->
                                IF i >= f.lo /\ i < f.hi THEN s[i - f.lo + 1]
                                ELSE points[i]]
                   mv == MoveAssign(sorted[m])
               IN /\ nodes' = [nodes EXCEPT ![f.node].dims_ = k,
                                            ![f.node].split_axis_ = axis,
                                            ![f.node].split_point = mv.to]
                  /\ points' = [sorted EXCEPT ![m] = mv.from]
                  /\ stack' = SetTop([f EXCEPT !.median = m, !.pc = "left"])
                  /\ mode' = mode
  /\ UNCHANGED <<input, heap, nscans, it, visited>>
  /\ UNCHANGED queryVars
  /\ UNCHANGED released

\* RecursiveInit on an empty range: points_begin->size() and *median_it read
\* the slot at points_end, which is not an element.  The behaviour is
\* undefined: the program crashes, or goes on with whatever it read and
\* ends with a single node holding a garbage point.
RI_SplitEmpty ==
  /\ mode = "constructing"
  /\ Top.pc = "split"
  /\ Top.lo = Top.hi
  /\ \/ /\ mode' = "crashed"
        /\ nodes' = nodes
     \/ /\ mode' = "built_garbage"
        /\ \E k \in {Len(g) : g \in GenPoints} :
             nodes' = [nodes EXCEPT ![Top.node].dims_ = k,
                                    ![Top.node].split_axis_ = 0,
                                    ![Top.node].left_child_ = NullPtr,
                                    ![Top.node].right_child_ = NullPtr,
                                    ![Top.node].split_point =
                                       [dims_ |-> k, data_ |-> Uninit]]
  /\ stack' = << >>
  /\ UNCHANGED <<input, points, heap, nscans, it, visited>>
  /\ UNCHANGED queryVars
  /\ UNCHANGED released

\* "Recurse on sub-array of points to the left of median point"
RI_Left ==
  /\ mode = "constructing"
  /\ Top.pc = "left"
  /\ IF Top.median - Top.lo <= 0
     THEN /\ nodes' = [nodes EXCEPT ![Top.node].left_child_ = NullPtr]
          /\ stack' = SetTop([Top EXCEPT !.pc = "right"])
     ELSE LET c == NewNode(nodes)
          IN /\ nodes' = Append([nodes EXCEPT ![Top.node].left_child_ = c],
                                NewTree)
             /\ stack' = Append(SetTop([Top EXCEPT !.pc = "left_ret"]),
                                [node |-> c, lo |-> Top.lo, hi |-> Top.median,
                                 depth |-> Top.depth + 1, median |-> 0,
                                 pc |-> "split"])
  /\ UNCHANGED <<input, points, heap, mode, nscans, it, visited>>
  /\ UNCHANGED queryVars
  /\ UNCHANGED released

\* a right sub-range that starts at the median itself
RightBegin_same(median) == median

\* std::next(median_it), the start of the right sub-range
RightBegin(median) == median + 1

\* "Recurse on sub-array of points to the right of median point"
RI_Right ==
  /\ mode = "constructing"
  /\ Top.pc = "right"
  /\ IF Top.hi - RightBegin(Top.median) <= 0
     THEN /\ nodes' = [nodes EXCEPT ![Top.node].right_child_ = NullPtr]
          /\ stack' = SetTop([Top EXCEPT !.pc = "ret"])
     ELSE LET c == NewNode(nodes)
          IN /\ nodes' = Append([nodes EXCEPT ![Top.node].right_child_ = c],
                                NewTree)
             /\ stack' = Append(SetTop([Top EXCEPT !.pc = "right_ret"]),
                                [node |-> c, lo |-> RightBegin(Top.median),
                                 hi |-> Top.hi, depth |-> Top.depth + 1,
                                 median |-> 0, pc |-> "split"])
  /\ UNCHANGED <<input, points, heap, mode, nscans, it, visited>>
  /\ UNCHANGED queryVars
  /\ UNCHANGED released

\* a link that makes the child its own parent
LinkParent_self(ns, child, this) == [ns EXCEPT ![child].parent_ = child]

\* left_child_->parent_ = this; / right_child_->parent_ = this;
LinkParent(ns, child, this) == [ns EXCEPT ![child].parent_ = this]

\* return of RecursiveInit: the caller sets the child's parent_ to itself
\* and goes on; the return of the root call ends the construction
RI_Return ==
  /\ mode = "constructing"
  /\ Top.pc = "ret"
  /\ IF Len(stack) = 1
     THEN /\ stack' = << >>
          /\ mode' = "built"
          /\ nodes' = nodes
     ELSE LET caller == stack[Len(stack) - 1]
          IN /\ nodes' = LinkParent(nodes, Top.node, caller.node)
             /\ stack' = [Pop EXCEPT ![Len(stack) - 1].pc =
                             IF caller.pc = "left_ret" THEN "right" ELSE "ret"]
             /\ mode' = mode
  /\ UNCHANGED <<input, points, heap, nscans, it, visited>>
  /\ UNCHANGED queryVars
  /\ UNCHANGED released

\* ------------------------------------------------- Tree::TreeIterator
\* a constructor that prefers the right child
RECURSIVE IteratorAt_rightfirst(_, _)
IteratorAt_rightfirst(ns, node) ==
  IF ns[node].right_child_ # NullPtr
  THEN IteratorAt_rightfirst(ns, ns[node].right_child_)
  ELSE IF ns[node].left_child_ # NullPtr
       THEN IteratorAt_rightfirst(ns, ns[node].left_child_)
       ELSE node

\* TreeIterator(nodeptr node): "Find the deepest, leftmost leaf node"
RECURSIVE IteratorAt(_, _)
IteratorAt(ns, node) ==
  IF ns[node].left_child_ # NullPtr \/ ns[node].right_child_ # NullPtr
  THEN IF ns[node].left_child_ # NullPtr
       THEN IteratorAt(ns, ns[node].left_child_)
       ELSE IteratorAt(ns, ns[node].right_child_)
  ELSE node

\* a begin() that stays at the root
Begin_root(ns) == 1

\* Tree::begin() is iterator(this)
Begin(ns) == IteratorAt(ns, 1)

\* Tree::end() is iterator(), p = nullptr
End == NullPtr

\* a right-child branch that forgets the descent
DescendLeft_none(ns, p) == p

\* a right-child branch that descends to the right
RECURSIVE DescendLeft_right(_, _)
DescendLeft_right(ns, p) ==
  IF ns[p].right_child_ # NullPtr
  THEN DescendLeft_right(ns, ns[p].right_child_) ELSE p

\* operator++, right-child branch: while (p->left_child_) p = p->left_child_
RECURSIVE DescendLeft(_, _)
DescendLeft(ns, p) ==
  IF ns[p].left_child_ # NullPtr THEN DescendLeft(ns, ns[p].left_child_) ELSE p

\* a climb that stops at once
Climb_none(ns, p, parent) == <<p, parent>>

\* operator++, other branch: while (parent && parent->right_child_ == p);
\* yields the pair <<p, parent>> the loop ends with
RECURSIVE Climb(_, _, _)
Climb(ns, p, parent) ==
  IF parent # NullPtr /\ ns[parent].right_child_ = p
  THEN Climb(ns, parent, ns[parent].parent_)
  ELSE <<p, parent>>

\* an advance that steps to the parent
Increment_up(ns, p) == ns[p].parent_

\* TreeIterator::operator++ () applied to a cursor at node p
Increment(ns, p) ==
  IF ns[p].right_child_ # NullPtr
  THEN DescendLeft(ns, ns[p].right_child_)
  ELSE LET r == Climb(ns, p, ns[p].parent_)
       IN IF r[2] = NullPtr \/ ns[r[1]].right_child_ # r[2] THEN r[2] ELSE r[1]

\* test_tree: for (auto it = tree.begin(); it != tree.end(); ++it) ...
\* It runs before a query point is read.
LoopBegin ==
  /\ mode = "built"
  /\ ref_point = DefaultPoint
  /\ visited = << >>
  /\ mode' = "iter"
  /\ it' = Begin(nodes)
  /\ UNCHANGED <<input, heap, stack, visited>>
  /\ UNCHANGED treeVars
  /\ UNCHANGED queryVars
  /\ UNCHANGED released

\* one turn of the loop: the body dereferences it, then ++it
LoopStep ==
  /\ mode = "iter"
  /\ it # End
  /\ visited' = Append(visited, it)
  /\ it' = Increment(nodes, it)
  /\ UNCHANGED <<input, heap, stack, mode>>
  /\ UNCHANGED treeVars
  /\ UNCHANGED queryVars
  /\ UNCHANGED released

\* it != tree.end() is false: the loop is left
LoopEnd ==
  /\ mode = "iter"
  /\ it = End
  /\ mode' = "built"
  /\ UNCHANGED <<input, heap, stack, it, visited>>
  /\ UNCHANGED treeVars
  /\ UNCHANGED queryVars
  /\ UNCHANGED released

\* ---------------------------------------------------------- the queries
NoResult == [state |-> "none", point |-> DefaultPoint]

\* delete [] of the arrays in `ptrs`
Free(h, ptrs) == [a \in (DOMAIN h) \ ptrs |-> h[a]]

\* a copy that takes over the array of rhs
CopyPoint_shallow(rhs, a) == rhs

\* Point(const Point<T>& rhs): a deep copy into a new array at address a
CopyPoint(rhs, a) == [dims_ |-> rhs.dims_, data_ |-> a]

\* test_tree reads a query point; the point and the results of the queries
\* before it are gone
ReadQuery ==
  /\ mode = "built"
  /\ \E q \in Queries :
       LET h0 == Free(heap, {ref_point.data_, nnBrute.point.data_,
                             nnPruned.point.data_})
           a == NewArray(h0)
       IN /\ heap' = (a :> q) @@ h0
          /\ ref_point' = [dims_ |-> Len(q), data_ |-> a]
  /\ nnBrute' = NoResult
  /\ nnPruned' = NoResult
  /\ it' = End
  /\ visited' = << >>
  /\ trace' = << >>
  /\ best_point' = Uninit
  /\ best_dist' = 0
  /\ UNCHANGED <<input, stack, mode>>
  /\ UNCHANGED treeVars
  /\ UNCHANGED released

\* findNN_brute_force up to the first `it != end` test of the range-for
BF_Call ==
  /\ mode = "built"
  /\ ref_point # DefaultPoint
  /\ nnBrute.state = "none"
  /\ mode' = "brute"
  /\ best_point' = Uninit
  /\ best_dist' = TMax
  /\ it' = Begin(nodes)
  /\ visited' = << >>
  /\ UNCHANGED <<input, heap, stack, ref_point, nnBrute, nnPruned, trace>>
  /\ UNCHANGED treeVars
  /\ UNCHANGED released

\* one turn of the range-for of findNN_brute_force; an exception thrown by
\* distance_to leaves the function
BF_Step ==
  /\ mode = "brute"
  /\ it # End
  /\ LET point == nodes[it].split_point
     IN IF DistanceThrows(point, ref_point)
        THEN /\ nnBrute' = [state |-> "out_of_range", point |-> DefaultPoint]
             /\ mode' = "built"
             /\ UNCHANGED <<best_point, best_dist, it, visited>>
        ELSE LET dist == distance_to(heap, point, ref_point)
             IN /\ IF dist < best_dist
                   THEN best_point' = it /\ best_dist' = dist
                   ELSE UNCHANGED <<best_point, best_dist>>
                /\ visited' = Append(visited, it)
                /\ it' = Increment(nodes, it)
                /\ UNCHANGED <<nnBrute, mode>>
  /\ UNCHANGED <<input, heap, stack, ref_point, nnPruned, trace>>
  /\ UNCHANGED treeVars
  /\ UNCHANGED released

\* return Point<T>(*best_point); best_point is still unset when no distance
\* was below the initial best_dist, and reading through it is undefined
BF_Return ==
  /\ mode = "brute"
  /\ it = End
  /\ IF best_point = Uninit
     THEN /\ mode' \in {"crashed", "built"}
          /\ nnBrute' = [state |-> "garbage", point |-> DefaultPoint]
          /\ heap' = heap
     ELSE LET a == NewArray(heap)
          IN /\ heap' = (a :> heap[nodes[best_point].split_point.data_]) @@ heap
             /\ nnBrute' = [state |-> "returned",
                            point |-> CopyPoint(nodes[best_point].split_point, a)]
             /\ mode' = "built"
  /\ UNCHANGED <<input, stack, it, visited, ref_point, best_point, best_dist,
                 nnPruned, trace>>
  /\ UNCHANGED treeVars
  /\ UNCHANGED released

\* a best distance that starts at zero
InitialBest_zero == [point |-> 1, dist |-> 0]

\* best_point = &tree.split_point; best_dist = std::numeric_limits<T>::max()
InitialBest == [point |-> 1, dist |-> TMax]

\* findNN up to the call of findNN_ on the root
NN_Call ==
  /\ mode = "built"
  /\ ref_point # DefaultPoint
  /\ nnPruned.state = "none"
  /\ mode' = "pruned"
  /\ best_point' = InitialBest.point
  /\ best_dist' = InitialBest.dist
  /\ stack' = << [node |-> 1, d |-> 0, farther |-> NullPtr, pc |-> "visit"] >>
  /\ trace' = << >>
  /\ UNCHANGED <<input, heap, it, visited, ref_point, nnBrute, nnPruned>>
  /\ UNCHANGED treeVars
  /\ UNCHANGED released

\* a direction test that looks at the wrong sign
CloserIsRight_neg(d) == d < 0

\* a direction test that sends d = 0 to the right
CloserIsRight_orzero(d) == d >= 0

\* "Determine which direction (right or left) to go": (d > 0) ? right : left
CloserIsRight(d) == d > 0

\* a farther child computed with the closer child's expression
FartherChild_closer(tree_node, d) ==
  IF CloserIsRight(d) THEN tree_node.right_child_ ELSE tree_node.left_child_

\* farther_child = (d > 0) ? left_child() : right_child()
FartherChild(tree_node, d) ==
  IF CloserIsRight(d) THEN tree_node.left_child_ ELSE tree_node.right_child_

\* a node that never replaces the best point
UpdatesBest_never(local_dist, best) == FALSE

\* findNN_: if (local_dist < *best_dist), the node becomes the best point
UpdatesBest(local_dist, best) == local_dist < best

\* findNN_ from its entry to the recursion into the closer child
NN_Visit ==
  /\ mode = "pruned"
  /\ stack # << >>
  /\ Top.pc = "visit"
  /\ LET tree_node == nodes[Top.node]
         local_point == tree_node.split_point
         split_dim == tree_node.split_axis_
     IN IF DistanceThrows(local_point, ref_point)
           \/ IndexThrows(ref_point, split_dim)
           \/ IndexThrows(local_point, split_dim)
        THEN /\ nnPruned' = [state |-> "out_of_range", point |-> DefaultPoint]
             /\ mode' = "built"
             /\ stack' = << >>
             /\ UNCHANGED <<best_point, best_dist, trace>>
        ELSE LET local_dist == distance_to(heap, local_point, ref_point)
                 d == Index(heap, ref_point, split_dim)
                        - Index(heap, local_point, split_dim)
                 closer_child == IF CloserIsRight(d) THEN tree_node.right_child_
                                 ELSE tree_node.left_child_
                 farther_child == FartherChild(tree_node, d)
                 here == [Top EXCEPT !.d = d, !.farther = farther_child,
                                     !.pc = "farther"]
             IN /\ IF UpdatesBest(local_dist, best_dist)
                   THEN best_point' = Top.node /\ best_dist' = local_dist
                   ELSE UNCHANGED <<best_point, best_dist>>
                /\ trace' = Append(trace, Top.node)
                /\ stack' = IF closer_child # NullPtr
                            THEN Append(SetTop(here),
                                        [node |-> closer_child, d |-> 0,
                                         farther |-> NullPtr, pc |-> "visit"])
                            ELSE SetTop(here)
                /\ UNCHANGED <<nnPruned, mode>>
  /\ UNCHANGED <<input, heap, it, visited, ref_point, nnBrute>>
  /\ UNCHANGED treeVars
  /\ UNCHANGED released

\* a pruning test with its branches swapped
Prune_swapped(d, best) == d * d < best

\* a pruning test that lets an equal distance through
Prune_lenient(d, best) == ~(d * d <= best)

\* the test d*d < *best_dist, made after the closer child's search: the
\* farther branch is ignored when it is false
Prune(d, best) == ~(d * d < best)

\* findNN_ after the closer child: recurse into the farther child unless the
\* test prunes it, and return
NN_Farther ==
  /\ mode = "pruned"
  /\ stack # << >>
  /\ Top.pc = "farther"
  /\ IF ~Prune(Top.d, best_dist) /\ Top.farther # NullPtr
     THEN stack' = Append(SetTop([Top EXCEPT !.pc = "ret"]),
                          [node |-> Top.farther, d |-> 0, farther |-> NullPtr,
                           pc |-> "visit"])
     ELSE stack' = Pop
  /\ UNCHANGED <<input, heap, mode, it, visited>>
  /\ UNCHANGED treeVars
  /\ UNCHANGED queryVars
  /\ UNCHANGED released

\* return of findNN_ after the farther child's search
NN_Return ==
  /\ mode = "pruned"
  /\ stack # << >>
  /\ Top.pc = "ret"
  /\ stack' = Pop
  /\ UNCHANGED <<input, heap, mode, it, visited>>
  /\ UNCHANGED treeVars
  /\ UNCHANGED queryVars
  /\ UNCHANGED released

\* findNN after findNN_ has returned: return Point<T>(*best_point)
NN_Finish ==
  /\ mode = "pruned"
  /\ stack = << >>
  /\ LET a == NewArray(heap)
     IN /\ heap' = (a :> heap[nodes[best_point].split_point.data_]) @@ heap
        /\ nnPruned' = [state |-> "returned",
                        point |-> CopyPoint(nodes[best_point].split_point, a)]
  /\ mode' = "built"
  /\ UNCHANGED <<input, stack, it, visited, ref_point, best_point, best_dist,
                 nnBrute, trace>>
  /\ UNCHANGED treeVars
  /\ UNCHANGED released

\* -------------------------------------------------------------- ~Tree
\* main returns after test_tree has run to its end: the locals of test_tree
\* are gone and the destructor of the tree is entered
D_Start ==
  /\ mode = "built"
  /\ nnPruned.state = "returned"
  /\ mode' = "destroying"
  /\ stack' = << [node |-> 1, pc |-> "left"] >>
  /\ heap' = Free(heap, {ref_point.data_, nnBrute.point.data_,
                         nnPruned.point.data_})
  /\ ref_point' = DefaultPoint
  /\ nnBrute' = NoResult
  /\ nnPruned' = NoResult
  /\ it' = End
  /\ visited' = << >>
  /\ trace' = << >>
  /\ best_point' = Uninit
  /\ best_dist' = 0
  /\ UNCHANGED <<input, released>>
  /\ UNCHANGED treeVars

\* a destructor that forgets the right child
DtorChild_leftonly(ns, n, pc) ==
  IF pc = "left" THEN ns[n].left_child_ ELSE NullPtr

\* the operand of the delete statement the destructor of node n is at
DtorChild(ns, n, pc) ==
  IF pc = "left" THEN ns[n].left_child_ ELSE ns[n].right_child_

\* delete left_child_; / delete right_child_; : a non-null child's destructor
\* is called, a null pointer is skipped
D_Child ==
  /\ mode = "destroying"
  /\ Top.pc \in {"left", "right"}
  /\ LET c == DtorChild(nodes, Top.node, Top.pc)
         here == [Top EXCEPT !.pc = IF Top.pc = "left" THEN "right"
                                    ELSE "members"]
     IN stack' = IF c # NullPtr
                 THEN Append(SetTop(here), [node |-> c, pc |-> "left"])
                 ELSE SetTop(here)
  /\ UNCHANGED <<input, heap, mode, it, visited, released>>
  /\ UNCHANGED treeVars
  /\ UNCHANGED queryVars

\* end of ~Tree: the member split_point is destroyed (delete [] data_) and
\* the node is released
D_Members ==
  /\ mode = "destroying"
  /\ Top.pc = "members"
  /\ heap' = Free(heap, {nodes[Top.node].split_point.data_})
  /\ released' = Append(released, Top.node)
  /\ stack' = Pop
  /\ mode' = IF Len(stack) = 1 THEN "destroyed" ELSE mode
  /\ UNCHANGED <<input, it, visited>>
  /\ UNCHANGED treeVars
  /\ UNCHANGED queryVars

Next ==
  \/ Construct
  \/ RI_Validate
  \/ RI_Split
  \/ RI_SplitEmpty
  \/ RI_Left
  \/ RI_Right
  \/ RI_Return
  \/ LoopBegin
  \/ LoopStep
  \/ LoopEnd
  \/ ReadQuery
  \/ BF_Call
  \/ BF_Step
  \/ BF_Return
  \/ NN_Call
  \/ NN_Visit
  \/ NN_Farther
  \/ NN_Return
  \/ NN_Finish
  \/ D_Start
  \/ D_Child
  \/ D_Members

Spec == Init /\ [][Next]_vars

\* ------------------------------------------------ the pruned search on its own
\* the construction followed by queries answered by findNN
NextPruned ==
  \/ Construct
  \/ RI_Validate
  \/ RI_Split
  \/ RI_SplitEmpty
  \/ RI_Left
  \/ RI_Right
  \/ RI_Return
  \/ ReadQuery
  \/ NN_Call
  \/ NN_Visit
  \/ NN_Farther
  \/ NN_Return
  \/ NN_Finish

\* findNN is sequential code: a call in progress runs its next step
SpecPruned == Init /\ [][NextPruned]_vars /\ WF_vars(NextPruned)

\* --------------------------------------------------- the loop on its own
\* the construction followed by the loop of test_tree
NextLoop ==
  \/ Construct
  \/ RI_Validate
  \/ RI_Split
  \/ RI_SplitEmpty
  \/ RI_Left
  \/ RI_Right
  \/ RI_Return
  \/ LoopBegin
  \/ LoopStep
  \/ LoopEnd

\* the loop is sequential code: while `it != tree.end()` holds, its body and
\* ++it are run
SpecLoop == Init /\ [][NextLoop]_vars /\ WF_vars(LoopStep)

\* ------------------------------------------- a client of the public interface
\* the values a client stores
WriteValues == {0}

\* (*it)[i] = v in the body of the loop: operator* hands out Point<T>& to
\* the node's split_point and operator[] hands out T& to its element
WriteElement ==
  /\ mode = "iter"
  /\ it # End
  /\ \E i \in 0..(nodes[it].split_point.dims_ - 1) :
       \E v \in WriteValues :
         /\ ~IndexThrows(nodes[it].split_point, i)
         /\ heap' = [heap EXCEPT ![nodes[it].split_point.data_][i + 1] = v]
  /\ UNCHANGED <<input, stack, mode, it, visited>>
  /\ UNCHANGED treeVars
  /\ UNCHANGED queryVars
  /\ UNCHANGED released

\* construction and iteration, with a loop body that may store to *it
NextPublic ==
  \/ Construct
  \/ RI_Validate
  \/ RI_Split
  \/ RI_SplitEmpty
  \/ RI_Left
  \/ RI_Right
  \/ RI_Return
  \/ LoopBegin
  \/ LoopStep
  \/ LoopEnd
  \/ WriteElement

SpecPublic == Init /\ [][NextPublic]_vars

\* ------------------------------------------- KDTree<T,k>, the fixed-k variant
\* the template argument k: the program instantiates KDTree<int,k> for the
\* number of coordinates of the points it builds the tree from
TemplateK == IF input = << >> THEN 1 ELSE Len(input[1])

\* the members of a KDTree<T,k> whose constructor has just been entered:
\* no member has an initialiser, so right_child_ holds whatever the memory
\* held, a null pointer (NullPtr) or anything else (Uninit)
NewKDTree(garbage) ==
  [left_child_ |-> Uninit, right_child_ |-> garbage, parent_ |-> Uninit,
   split_axis_ |-> Uninit, split_point_ |-> DefaultPoint]

\* KDTree<int,k> tree = KDTree<int,k>(std::begin(points), std::end(points))
KD_Construct ==
  /\ mode = "start"
  /\ \E g \in {NullPtr, Uninit} : nodes' = <<NewKDTree(g)>>
  /\ stack' = << [node |-> 1, lo |-> 1, hi |-> Len(points) + 1, depth |-> 0,
                  median |-> 0, pc |-> "split"] >>
  /\ mode' = "kd_constructing"
  /\ UNCHANGED <<input, points, heap, nscans, it, visited, released>>
  /\ UNCHANGED queryVars

\* the constructor from "if (depth == 0)" to "split_point_ = *(median_it)":
\* the range is sorted on depth % k and the median is copied into the node.
\* The comparator reads a[axis] unchecked and *median_it is read even when
\* the range is empty; both are undefined where the element is missing.
\* (A range of one element is sorted without a comparison.)
KD_Split ==
  /\ mode = "kd_constructing"
  /\ Top.pc = "split"
  /\ LET f == Top
         axis == f.depth % TemplateK
         m == MedianIt(f.lo, f.hi)
         root == IF f.depth = 0
                 THEN [nodes EXCEPT ![f.node].parent_ = NullPtr] ELSE nodes
     IN IF f.lo = f.hi \/ SortThrows(points, f.lo, f.hi, axis)
        THEN /\ mode' = "crashed"
             /\ nodes' = root
             /\ UNCHANGED <<points, heap, stack>>
        ELSE \E s \in (IF f.hi - f.lo = 1 THEN {<<points[f.lo]>>}
                        ELSE SortedArrangements(heap, points,
                                                f.lo..(f.hi - 1), axis)) :
               LET sorted == [i \in 1..Len(points) |->
                                IF i >= f.lo /\ i < f.hi THEN s[i - f.lo + 1]
                                ELSE points[i]]
                   a == NewArray(heap)
               IN /\ points' = sorted
                  /\ heap' = (a :> heap[sorted[m].data_]) @@ heap
                  /\ nodes' = [root EXCEPT ![f.node].split_point_ =
                                              CopyPoint(sorted[m], a)]
                  /\ stack' = SetTop([f EXCEPT !.median = m, !.pc = "left"])
                  /\ mode' = mode
  /\ UNCHANGED <<input, nscans, it, visited, released>>
  /\ UNCHANGED queryVars

\* if (std::distance(points_begin, median_it) <= 0) left_child_ = nullptr;
\* else left_child_ = new KDTree<T,k>(points_begin, median_it, depth + 1)
KD_Left ==
  /\ mode = "kd_constructing"
  /\ Top.pc = "left"
  /\ IF Top.median - Top.lo <= 0
     THEN /\ nodes' = [nodes EXCEPT ![Top.node].left_child_ = NullPtr]
          /\ stack' = SetTop([Top EXCEPT !.pc = "right"])
     ELSE \E g \in {NullPtr, Uninit} :
            LET c == NewNode(nodes)
            IN /\ nodes' = Append([nodes EXCEPT ![Top.node].left_child_ = c],
                                  NewKDTree(g))
               /\ stack' = Append(SetTop([Top EXCEPT !.pc = "left_ret"]),
                                  [node |-> c, lo |-> Top.lo, hi |-> Top.median,
                                   depth |-> Top.depth + 1, median |-> 0,
                                   pc |-> "split"])
  /\ UNCHANGED <<input, points, heap, mode, nscans, it, visited, released>>
  /\ UNCHANGED queryVars

\* if (std::distance(std::next(median_it), points_end) <= 0)
\*   left_child_ = nullptr;          (sic: the left child, not the right one)
\* else right_child_ = new KDTree<T,k>(std::next(median_it), points_end, ...)
KD_Right ==
  /\ mode = "kd_constructing"
  /\ Top.pc = "right"
  /\ IF Top.hi - (Top.median + 1) <= 0
     THEN /\ nodes' = [nodes EXCEPT ![Top.node].left_child_ = NullPtr]
          /\ stack' = SetTop([Top EXCEPT !.pc = "ret"])
     ELSE \E g \in {NullPtr, Uninit} :
            LET c == NewNode(nodes)
            IN /\ nodes' = Append([nodes EXCEPT ![Top.node].right_child_ = c],
                                  NewKDTree(g))
               /\ stack' = Append(SetTop([Top EXCEPT !.pc = "right_ret"]),
                                  [node |-> c, lo |-> Top.median + 1,
                                   hi |-> Top.hi, depth |-> Top.depth + 1,
                                   median |-> 0, pc |-> "split"])
  /\ UNCHANGED <<input, points, heap, mode, nscans, it, visited, released>>
  /\ UNCHANGED queryVars

\* return of the constructor: the caller calls setParent(this) on the new
\* child and goes on; the return of the root's constructor ends the
\* construction
KD_Return ==
  /\ mode = "kd_constructing"
  /\ Top.pc = "ret"
  /\ IF Len(stack) = 1
     THEN /\ mode' = "kd_built"
          /\ nodes' = nodes
          /\ stack' = stack
     ELSE LET caller == stack[Len(stack) - 1]
          IN /\ nodes' = [nodes EXCEPT ![Top.node].parent_ = caller.node]
             /\ stack' = [Pop EXCEPT ![Len(stack) - 1].pc =
                             IF caller.pc = "left_ret" THEN "right" ELSE "ret"]
             /\ mode' = mode
  /\ UNCHANGED <<input, points, heap, nscans, it, visited, released>>
  /\ UNCHANGED queryVars

NextFixed ==
  \/ KD_Construct
  \/ KD_Split
  \/ KD_Left
  \/ KD_Right
  \/ KD_Return

SpecFixed == Init /\ [][NextFixed]_vars

\* ====================================================== the built tree
\* the construction has returned and the tree is in use
Built == mode \in {"built", "iter", "brute", "pruned"}

\* the nodes reachable from n through child links, n included
RECURSIVE Subtree(_, _)
Subtree(ns, n) ==
  IF n = NullPtr THEN {}
  ELSE {n} \cup Subtree(ns, ns[n].left_child_) \cup Subtree(ns, ns[n].right_child_)

\* number of levels on the longest path from n down to a leaf
RECURSIVE Height(_, _)
Height(ns, n) ==
  IF n = NullPtr THEN 0
  ELSE LET l == Height(ns, ns[n].left_child_)
           r == Height(ns, ns[n].right_child_)
       IN 1 + (IF l >= r THEN l ELSE r)

\* coordinates held by node n
NodeCoords(n) == Coords(heap, nodes[n].split_point)

\* squared Euclidean distance of two coordinate sequences of equal length
RECURSIVE SqDist(_, _)
SqDist(a, b) ==
  IF a = << >> THEN 0
  ELSE (Head(a) - Head(b)) * (Head(a) - Head(b)) + SqDist(Tail(a), Tail(b))

QueryCoords == Coords(heap, ref_point)

\* a query has been read and has as many coordinates as the tree's points
MatchingQuery == Built /\ ref_point # DefaultPoint /\ ref_point.dims_ = nodes[1].dims_
MismatchedQuery == Built /\ ref_point # DefaultPoint /\ ref_point.dims_ # nodes[1].dims_

\* the least squared distance from the query to a point of the tree
IsNearest(c) ==
  /\ \E n \in DOMAIN nodes : NodeCoords(n) = c
  /\ \A n \in DOMAIN nodes : SqDist(c, QueryCoords) <= SqDist(NodeCoords(n), QueryCoords)

\* how often v occurs in the sequence s
Count(s, v) == Cardinality({i \in DOMAIN s : s[i] = v})

\* two sequences hold the same values the same number of times
SameMultiset(s, t) ==
  /\ Len(s) = Len(t)
  /\ \A i \in DOMAIN s : Count(s, s[i]) = Count(t, s[i])

\* the least h with 2^h >= m, i.e. ceil(log2(m)) for m >= 1
RECURSIVE CeilLog2From(_, _, _)
CeilLog2From(m, h, pow) == IF pow >= m THEN h ELSE CeilLog2From(m, h + 1, 2 * pow)
CeilLog2(m) == CeilLog2From(m, 0, 1)

\* the input holds points of different sizes
MixedDims == \E i, j \in DOMAIN input : Len(input[i]) # Len(input[j])

\* ============================================================== claims

\* C1: for a tree built from a non-empty same-dims input and a query of the
\* same dims, findNN and findNN_brute_force both return, and the points they
\* return are at the same squared distance from the query.
C1_SearchAgreement ==
  MatchingQuery =>
    /\ nnBrute.state \in {"none", "returned"}
    /\ nnPruned.state \in {"none", "returned"}
    /\ (nnBrute.state = "returned" /\ nnPruned.state = "returned") =>
          SqDist(Coords(heap, nnBrute.point), QueryCoords)
            = SqDist(Coords(heap, nnPruned.point), QueryCoords)

\* both searches have answered a matching query on a tree of three or more
\* nodes, and the pruned one never looked at some node
C1_Witness ==
  /\ MatchingQuery
  /\ nnBrute.state = "returned"
  /\ nnPruned.state = "returned"
  /\ Len(nodes) >= 3
  /\ Len(trace) < Len(nodes)

\* C2: for a matching query, the point findNN returns is stored in the tree
\* and no point of the tree is strictly closer to the query; on the points
\* (2,3),(5,4),(9,6),(4,7),(8,1),(7,2) with query (9,2) it returns (8,1).
C2_PrunedIsNearest ==
  (MatchingQuery /\ nnPruned.state = "returned") =>
    /\ IsNearest(Coords(heap, nnPruned.point))
    /\ (input = WikipediaPoints /\ QueryCoords = WikipediaQuery) =>
          Coords(heap, nnPruned.point) = <<8, 1>>

\* findNN has answered (9,2) on the wikipedia tree after skipping a subtree
C2_Witness ==
  /\ MatchingQuery
  /\ nnPruned.state = "returned"
  /\ input = WikipediaPoints
  /\ QueryCoords = WikipediaQuery
  /\ Len(trace) < Len(nodes)

\* C3: for a matching query, the point findNN_brute_force returns is stored
\* in the tree and its squared distance to the query is less than or equal
\* to that of every point of the tree.
C3_BruteIsNearest ==
  (MatchingQuery /\ nnBrute.state = "returned") =>
    IsNearest(Coords(heap, nnBrute.point))

\* the brute-force scan has answered on a tree of three or more nodes, and
\* the best point was not the first one it visited
C3_Witness ==
  /\ MatchingQuery
  /\ nnBrute.state = "returned"
  /\ Len(nodes) >= 3
  /\ mode = "built"
  /\ visited # << >>
  /\ best_point # visited[1]

\* C4: when the loop from begin() has advanced to end(), it has visited as
\* many nodes as there were input points, no node twice, and the visited
\* points are the input points, each as often as it was put in.
C4_TraversalComplete ==
  (mode = "iter" /\ it = End) =>
    /\ Len(visited) = Len(input)
    /\ \A i, j \in DOMAIN visited : visited[i] = visited[j] => i = j
    /\ SameMultiset([i \in DOMAIN visited |-> NodeCoords(visited[i])], input)

\* the loop has reached end() on a tree of distinct points, more than three
C4_Witness ==
  /\ mode = "iter"
  /\ it = End
  /\ Len(input) > 3
  /\ \A i, j \in DOMAIN input : input[i] = input[j] => i = j

\* C5: in the built tree, for every node N with split axis a, every point in
\* N's left subtree has coordinate a <= N's, and every point in N's right
\* subtree has coordinate a >= N's, at any depth below N.
C5_Ordering ==
  Built =>
    \A n \in DOMAIN nodes :
      LET a == nodes[n].split_axis_ + 1
      IN /\ \A l \in Subtree(nodes, nodes[n].left_child_) :
              NodeCoords(l)[a] <= NodeCoords(n)[a]
         /\ \A r \in Subtree(nodes, nodes[n].right_child_) :
              NodeCoords(r)[a] >= NodeCoords(n)[a]

\* a built tree of more than three nodes in which some node has, in its left
\* subtree, a node that is not its left child
C5_Witness ==
  /\ Built
  /\ \E n \in DOMAIN nodes :
       \E c \in Subtree(nodes, nodes[n].left_child_) :
         c # nodes[n].left_child_
  /\ Len(nodes) > 3

\* C6: the tree built from n >= 1 points has exactly ceil(log2(n+1)) levels.
C6_Height ==
  (Built /\ Len(input) >= 1) => Height(nodes, 1) = CeilLog2(Len(input) + 1)

\* a built tree of six points, three levels high
C6_Witness ==
  /\ Built
  /\ Len(input) = 6
  /\ Height(nodes, 1) = 3

\* C7: after the construction every slot of the container is moved-from
\* (dims 0, no array), and the array of every input point belongs to exactly
\* one node, which has that point's coordinates.
C7_AllMoved ==
  Built =>
    /\ Len(points) = Len(input)
    /\ \A i \in DOMAIN points : points[i].dims_ = 0 /\ points[i].data_ = NullPtr
    /\ \A i \in DOMAIN input :
         /\ Cardinality({n \in DOMAIN nodes : nodes[n].split_point.data_ = i}) = 1
         /\ heap[i] = input[i]
    /\ \A n \in DOMAIN nodes :
         /\ nodes[n].split_point.data_ \in DOMAIN input
         /\ nodes[n].split_point.dims_ = Len(input[nodes[n].split_point.data_])

\* a tree has been built from a container of three or more points
C7_Witness ==
  /\ mode = "built"
  /\ Len(input) >= 3
  /\ Len(nodes) = Len(input)
  /\ \A i \in DOMAIN points : points[i] = MovedFrom

\* C8: for a query whose dims differs from the tree's, neither findNN nor
\* findNN_brute_force returns a point.
C8_MismatchRejected ==
  MismatchedQuery => nnBrute.state # "returned" /\ nnPruned.state # "returned"

\* C9: an input with points of different dims ends the construction at the
\* validation of the root call, with no point moved and no child created;
\* the validation runs once and only in the frame of depth 0.
C9_MixedDimsFails ==
  /\ MixedDims =>
       /\ mode \in {"start", "constructing", "assert_failed"}
       /\ mode = "constructing" => Len(stack) = 1 /\ Top.pc = "validate"
       /\ Len(nodes) <= 1
  /\ nscans <= 1
  /\ \A i \in DOMAIN stack :
       (mode = "constructing" /\ stack[i].pc = "validate") => stack[i].depth = 0

\* the construction of a mixed input has been stopped by the validation
C9_Witness ==
  /\ MixedDims
  /\ mode = "assert_failed"
  /\ nscans = 1

\* C10: the construction from an empty collection ends in an EmptyInput
\* error, without a tree.
C10_EmptyRejected ==
  (Len(input) = 0 /\ mode \notin {"start", "constructing"}) =>
     mode = "empty_input"

\* a distance_to between a stored point and a query of another dims has
\* returned a value: the brute-force loop went on to the next node, or
\* findNN_ recorded its visit
DistanceReturned == visited # << >> \/ trace # << >>

\* C11: a.distance_to(b) with a.dims # b.dims fails and returns no value,
\* whether b has fewer or more coordinates than a.
C11_DistanceRejects == MismatchedQuery => ~DistanceReturned

\* the arrays the points of the tree own
TreeData == {nodes[n].split_point.data_ : n \in DOMAIN nodes} \ {NullPtr}

\* a step of findNN or findNN_brute_force, from the call to the return
QueryStep == mode \in {"brute", "pruned"} \/ mode' \in {"brute", "pruned"}

\* C12: a step of a nearest-neighbor query changes no node (split point,
\* split axis, dims, child and parent links) and no coordinate of a stored
\* point, and a point the query returns owns an array of its own, which is
\* no array of the tree.
C12_QueryFrame ==
  [][QueryStep =>
       /\ nodes' = nodes
       /\ \A a \in TreeData : a \in DOMAIN heap' /\ heap'[a] = heap[a]
       /\ \A r \in {nnBrute', nnPruned'} :
            r.state = "returned" =>
              /\ r.point.data_ \notin TreeData
              /\ r.point.data_ # ref_point.data_
       /\ (nnBrute'.state = "returned" /\ nnPruned'.state = "returned") =>
            nnBrute'.point.data_ # nnPruned'.point.data_]_vars

\* both queries have returned the coordinates of a stored point in arrays
\* that are not the tree's
C12_Witness ==
  /\ MatchingQuery
  /\ Len(nodes) >= 2
  /\ nnBrute.state = "returned"
  /\ nnPruned.state = "returned"
  /\ nnBrute.point.data_ \notin TreeData
  /\ \E n \in DOMAIN nodes : NodeCoords(n) = Coords(heap, nnBrute.point)

\* C13: after the construction no operation of the public interface changes
\* the point stored in a node: every node holds the coordinates its point had
\* in the input, and the ordering of the subtrees around each node holds.
C13_PointsFrozen ==
  Built =>
    /\ \A n \in DOMAIN nodes :
         NodeCoords(n) = input[nodes[n].split_point.data_]
    /\ \A n \in DOMAIN nodes :
         LET a == nodes[n].split_axis_ + 1
         IN /\ \A l \in Subtree(nodes, nodes[n].left_child_) :
                 NodeCoords(l)[a] <= NodeCoords(n)[a]
            /\ \A r \in Subtree(nodes, nodes[n].right_child_) :
                 NodeCoords(r)[a] >= NodeCoords(n)[a]

\* the nodes whose point is at the least squared distance from the query
NearestNodes ==
  {n \in DOMAIN nodes :
     \A m \in DOMAIN nodes :
       SqDist(NodeCoords(n), QueryCoords) <= SqDist(NodeCoords(m), QueryCoords)}

\* C14: when exactly one point of the tree attains the least distance to a
\* matching query, findNN and findNN_brute_force return the same point
\* value, the coordinates of that point.
C14_UniqueNearest ==
  (/\ MatchingQuery
   /\ nnBrute.state = "returned"
   /\ nnPruned.state = "returned"
   /\ Cardinality(NearestNodes) = 1) =>
     /\ Coords(heap, nnBrute.point) = Coords(heap, nnPruned.point)
     /\ \A n \in NearestNodes : NodeCoords(n) = Coords(heap, nnPruned.point)

\* both searches have answered a query whose single nearest point is not in
\* the root of a tree of three or more nodes
C14_Witness ==
  /\ MatchingQuery
  /\ nnBrute.state = "returned"
  /\ nnPruned.state = "returned"
  /\ Len(nodes) >= 3
  /\ Cardinality(NearestNodes) = 1
  /\ 1 \notin NearestNodes

\* C15: on a built tree of n nodes the loop from begin() reaches end(), after
\* exactly n advances; before that the cursor is at a node of the tree, so
\* no advance and no dereference happens at the null sentinel.
C15_LoopTerminates ==
  /\ [](mode = "iter" =>
          /\ Len(visited) <= Len(nodes)
          /\ it = End <=> Len(visited) = Len(nodes)
          /\ it # End => it \in DOMAIN nodes)
  /\ (mode = "iter") ~> (mode = "iter" /\ it = End /\ Len(visited) = Len(nodes))

\* the cursor has become end() after six advances on a tree of six nodes
C15_Witness ==
  /\ mode = "iter"
  /\ it = End
  /\ Len(nodes) = 6
  /\ Len(visited) = 6

\* the child links of node n that are set
Children(n) == {nodes[n].left_child_, nodes[n].right_child_} \ {NullPtr}

\* C16: the release of a built tree releases every node reachable from the
\* root through child links exactly once (none twice, none left when the
\* release is over), a node after its children, and it reaches a node only
\* through a child link of the node released around it, never through a
\* parent link.
C16_ReleasedOnce ==
  /\ \A i, j \in DOMAIN released : released[i] = released[j] => i = j
  /\ \A i \in DOMAIN released :
       \A c \in Children(released[i]) : \E j \in 1..(i - 1) : released[j] = c
  /\ mode = "destroying" =>
       /\ stack[1].node = 1
       /\ \A i \in 2..Len(stack) : stack[i].node \in Children(stack[i - 1].node)
       /\ \A i \in DOMAIN stack :
            \A j \in DOMAIN released : released[j] # stack[i].node
  /\ mode = "destroyed" =>
       /\ {released[i] : i \in DOMAIN released} = Subtree(nodes, 1)
       /\ Subtree(nodes, 1) = DOMAIN nodes
       /\ DOMAIN heap = {}

\* the six nodes of a tree have been released, the root last
C16_Witness ==
  /\ mode = "destroyed"
  /\ Len(released) = 6
  /\ released[6] = 1

\* the container as main filled it: slot i owns array i, which holds the
\* coordinates of input point i
ContainerIntact ==
  /\ points = [i \in 1..Len(input) |-> [dims_ |-> Len(input[i]), data_ |-> i]]
  /\ heap = [i \in 1..Len(input) |-> input[i]]

\* C17: a construction from points of different dims leaves no partial
\* state: at every moment, the failure included, the container holds its
\* points in their order, no point has been moved into a node and no child
\* node has been created.
C17_NoPartialState ==
  MixedDims =>
    /\ ContainerIntact
    /\ Len(nodes) <= 1
    /\ \A n \in DOMAIN nodes :
         /\ nodes[n].split_point = DefaultPoint
         /\ nodes[n].left_child_ = Uninit
         /\ nodes[n].right_child_ = Uninit
    /\ mode \in {"start", "constructing", "assert_failed"}

\* the construction from three points, the last of another dims than the
\* first two, has failed and the container is as it was
C17_Witness ==
  /\ mode = "assert_failed"
  /\ Len(input) = 3
  /\ Len(input[1]) = Len(input[2])
  /\ Len(input[3]) # Len(input[1])
  /\ ContainerIntact

\* ++it is applied to a cursor at a node, in the loop of test_tree or in the
\* range-for of findNN_brute_force
Advance == it # End /\ visited' = Append(visited, it)

\* the node reached from n by descending to the left child if there is one,
\* else to the right child, until a node without children
RECURSIVE LeftmostLeaf(_)
LeftmostLeaf(n) ==
  IF nodes[n].left_child_ # NullPtr THEN LeftmostLeaf(nodes[n].left_child_)
  ELSE IF nodes[n].right_child_ # NullPtr THEN LeftmostLeaf(nodes[n].right_child_)
  ELSE n

\* C18: in a built tree an advance at a node with a right child moves the
\* cursor to the node reached by entering the right child and descending
\* left (right where there is no left child) down to a node without
\* children; the cursor is then a childless node of the right subtree.
C18_AdvanceIntoRight ==
  [][(Advance /\ nodes[it].right_child_ # NullPtr) =>
       /\ it' = LeftmostLeaf(nodes[it].right_child_)
       /\ Children(it') = {}
       /\ it' \in Subtree(nodes, nodes[it].right_child_)]_vars

\* the loop has advanced from a node with a right child to a node below
\* that child
C18_Witness ==
  /\ mode = "iter"
  /\ visited # << >>
  /\ it # End
  /\ LET p == visited[Len(visited)]
     IN /\ nodes[p].right_child_ # NullPtr
        /\ it # nodes[p].right_child_
        /\ it \in Subtree(nodes, nodes[p].right_child_)
        /\ Children(it) = {}

\* the nearest ancestor of n that has n's branch below its left child; end()
\* when every link from n up to the root is a right-child link
RECURSIVE NextAncestor(_)
NextAncestor(n) ==
  LET q == nodes[n].parent_
  IN IF q = NullPtr THEN End
     ELSE IF nodes[q].left_child_ = n THEN q
     ELSE NextAncestor(q)

\* C19: in a built tree an advance at a node without a right child climbs
\* the parent links while the node is its parent's right child and moves to
\* the parent of the node where the climb stopped: the cursor becomes the
\* nearest ancestor reached through a left-child link, or end() when there
\* is none.
C19_AdvanceClimbs ==
  [][(Advance /\ nodes[it].right_child_ = NullPtr) =>
       /\ it' = NextAncestor(it)
       /\ it' = Climb(nodes, it, nodes[it].parent_)[2]
       /\ it' # End => it \in Subtree(nodes, nodes[it'].left_child_)
       /\ it' = End => \A a \in DOMAIN nodes :
                          it \notin Subtree(nodes, nodes[a].left_child_)]_vars

\* the loop has advanced from a right child without children to an ancestor
\* that is not its parent
C19_Witness ==
  /\ mode = "iter"
  /\ visited # << >>
  /\ it # End
  /\ LET p == visited[Len(visited)]
     IN /\ nodes[p].right_child_ = NullPtr
        /\ nodes[p].parent_ # NullPtr
        /\ nodes[nodes[p].parent_].right_child_ = p
        /\ it # nodes[p].parent_
        /\ p \in Subtree(nodes, nodes[it].left_child_)

\* C20: begin() of a built tree is a cursor at the childless node found from
\* the root by descending to the left child if present, else to the right
\* child; on a single-node tree it is the root; and the first node the
\* traversal visits is that node.
C20_BeginAtLeaf ==
  mode \in {"iter", "brute"} =>
    /\ visited = << >> =>
         /\ it = LeftmostLeaf(1)
         /\ Children(it) = {}
         /\ Len(nodes) = 1 => it = 1
    /\ visited # << >> => visited[1] = LeftmostLeaf(1)

\* begin() has returned a cursor two levels below the root of a tree whose
\* root has two children
C20_Witness ==
  /\ mode = "iter"
  /\ visited = << >>
  /\ it # End
  /\ nodes[1].left_child_ # NullPtr
  /\ nodes[1].right_child_ # NullPtr
  /\ nodes[it].parent_ = nodes[1].left_child_

\* the query's coordinate minus node n's coordinate on n's split axis
PlaneDist(n) ==
  QueryCoords[nodes[n].split_axis_ + 1] - NodeCoords(n)[nodes[n].split_axis_ + 1]

\* the child of n on the query's side of n's splitting plane, and the other
CloserOf(n) ==
  IF PlaneDist(n) > 0 THEN nodes[n].right_child_ ELSE nodes[n].left_child_
FartherOf(n) ==
  IF PlaneDist(n) > 0 THEN nodes[n].left_child_ ELSE nodes[n].right_child_

\* the search of the closer child of the top frame's node has returned and
\* findNN_ takes its next step there
FartherStep ==
  mode = "pruned" /\ stack # << >> /\ Top.pc = "farther" /\ stack' # stack

\* that step calls findNN_ on node c
Enters(c) ==
  /\ Len(stack') = Len(stack) + 1
  /\ stack'[Len(stack')].node = c
  /\ stack'[Len(stack')].pc = "visit"

\* C21: in the pruned search the farther child of a visited node is entered
\* if and only if it exists and d*d is strictly less than the best squared
\* distance held when the closer child's search has returned; with d*d equal
\* to the best distance the farther subtree is skipped.
C21_FartherIffCloser ==
  [][FartherStep =>
       LET n == Top.node
           d == PlaneDist(n)
           f == FartherOf(n)
       IN /\ Enters(f) <=> (f # NullPtr /\ d * d < best_dist)
          /\ ~Enters(f) => stack' = Pop
          /\ d * d = best_dist => stack' = Pop
          /\ best_dist' = best_dist]_vars

\* a search has ended in which a farther subtree whose plane lies exactly at
\* the best distance was skipped
C21_Witness ==
  /\ MatchingQuery
  /\ nnPruned.state = "returned"
  /\ \E i \in DOMAIN trace :
       /\ FartherOf(trace[i]) # NullPtr
       /\ \A k \in DOMAIN trace : trace[k] # FartherOf(trace[i])
       /\ PlaneDist(trace[i]) * PlaneDist(trace[i]) = best_dist
       /\ best_dist > 0

\* findNN_ evaluates the distance of the top frame's node and goes on
VisitStep ==
  /\ mode = "pruned"
  /\ stack # << >>
  /\ Top.pc = "visit"
  /\ trace' = Append(trace, Top.node)

\* C22: in the pruned search the closer child of a visited node is its
\* right child when d > 0 and its left child when d <= 0 (d = 0 included);
\* if it exists it is searched whatever the distances are, and its whole
\* search is over before the pruning test for the farther child is made:
\* while a call waits for that test, the call above it is the closer child's.
C22_CloserFirst ==
  /\ [][VisitStep =>
          LET n == Top.node
              c == IF PlaneDist(n) > 0 THEN nodes[n].right_child_
                   ELSE nodes[n].left_child_
          IN /\ PlaneDist(n) = 0 => c = nodes[n].left_child_
             /\ c # NullPtr => Enters(c)
             /\ c = NullPtr => Len(stack') = Len(stack)
             /\ stack'[Len(stack)].node = n
             /\ stack'[Len(stack)].pc = "farther"]_vars
  /\ [](mode = "pruned" =>
          \A i \in 1..(Len(stack) - 1) :
            /\ stack[i].pc # "visit"
            /\ stack[i].pc = "farther" =>
                 stack[i + 1].node = CloserOf(stack[i].node)
            /\ stack[i].pc = "ret" =>
                 stack[i + 1].node = FartherOf(stack[i].node))

\* findNN_ is searching the left child of a node whose plane the query lies
\* on (d = 0), and that node has a right child waiting for the pruning test
C22_Witness ==
  /\ mode = "pruned"
  /\ Len(stack) >= 2
  /\ LET below == stack[Len(stack) - 1]
     IN /\ below.pc = "farther"
        /\ PlaneDist(below.node) = 0
        /\ Top.node = nodes[below.node].left_child_
        /\ nodes[below.node].right_child_ # NullPtr

\* RecursiveInit orders the range of the top frame and moves its median
\* into the node
SplitStep ==
  /\ mode = "constructing"
  /\ Top.pc = "split"
  /\ Top.lo < Top.hi
  /\ stack' # stack

\* the coordinate on `axis` of the point p, read in the heap h
CoordOf(h, p, axis) == h[p.data_][axis + 1]

\* C23: a construction step on a range of length len >= 1 orders the range
\* by the coordinate on the current axis and moves the element at index
\* len/2 (integer division) into the node; the left child is built from the
\* len/2 elements before it and the right child from the len - len/2 - 1
\* elements after it, each at depth + 1, and an empty sub-range yields no
\* child.
C23_MedianSplit ==
  /\ [][SplitStep =>
          LET f == Top
              len == f.hi - f.lo
              m == f.lo + (len \div 2)
              axis == nodes'[f.node].split_axis_
              sp == nodes'[f.node].split_point
          IN /\ stack'[Len(stack)].median = m
             /\ points'[m] = MovedFrom
             /\ sp.data_ # NullPtr
             /\ \E i \in f.lo..(f.hi - 1) : points[i] = sp
             /\ \A i \in f.lo..(m - 1) :
                  CoordOf(heap, points'[i], axis) <= CoordOf(heap, sp, axis)
             /\ \A i \in (m + 1)..(f.hi - 1) :
                  CoordOf(heap, points'[i], axis) >= CoordOf(heap, sp, axis)
             /\ \A i, j \in (f.lo..(f.hi - 1)) \ {m} :
                  i < j => CoordOf(heap, points'[i], axis)
                             <= CoordOf(heap, points'[j], axis)]_vars
  /\ [](mode = "constructing" =>
          \A i \in 2..Len(stack) :
            LET up == stack[i - 1]
                len == up.hi - up.lo
            IN /\ stack[i].depth = up.depth + 1
               /\ up.median = up.lo + (len \div 2)
               /\ up.pc \in {"left_ret", "right_ret"}
               /\ up.pc = "left_ret" =>
                    /\ stack[i].lo = up.lo
                    /\ stack[i].hi - stack[i].lo = len \div 2
                    /\ stack[i].node = nodes[up.node].left_child_
               /\ up.pc = "right_ret" =>
                    /\ stack[i].hi = up.hi
                    /\ stack[i].hi - stack[i].lo = len - (len \div 2) - 1
                    /\ stack[i].node = nodes[up.node].right_child_
               /\ stack[i].lo < stack[i].hi)
  /\ [](Built =>
          \A n \in DOMAIN nodes :
            LET len == Cardinality(Subtree(nodes, n))
            IN /\ Cardinality(Subtree(nodes, nodes[n].left_child_)) = len \div 2
               /\ Cardinality(Subtree(nodes, nodes[n].right_child_))
                    = len - (len \div 2) - 1)

\* the right child of the root of six points is being built from two
\* points: the second of them has become its split point
C23_Witness ==
  /\ mode = "constructing"
  /\ Len(stack) = 2
  /\ stack[1].hi - stack[1].lo = 6
  /\ stack[1].pc = "right_ret"
  /\ Top.hi - Top.lo = 2
  /\ Top.pc = "left"
  /\ Top.median = Top.lo + 1
  /\ points[Top.median] = MovedFrom

\* the number of parent links from node n up to the root
RECURSIVE DepthOf(_)
DepthOf(n) == IF nodes[n].parent_ = NullPtr THEN 0 ELSE 1 + DepthOf(nodes[n].parent_)

\* C24: in a built tree the split axis of every node is its distance from
\* the root modulo dims, and every node stores the same dims, which is the
\* number of coordinates of the input points.
C24_AxisCycles ==
  Built =>
    \A n \in DOMAIN nodes :
      /\ nodes[n].dims_ = Len(input[1])
      /\ nodes[n].dims_ = nodes[1].dims_
      /\ nodes[n].dims_ = nodes[n].split_point.dims_
      /\ nodes[n].split_axis_ = DepthOf(n) % nodes[n].dims_

\* a built tree of points with two coordinates and three levels: the axis
\* is 0 at the root, 1 below it and 0 again at the third level
C24_Witness ==
  /\ Built
  /\ nodes[1].dims_ = 2
  /\ nodes[1].split_axis_ = 0
  /\ \E n, m \in DOMAIN nodes :
       /\ DepthOf(n) = 1 /\ nodes[n].split_axis_ = 1
       /\ DepthOf(m) = 2 /\ nodes[m].split_axis_ = 0

\* the node k parent links above n, or the null pointer above the root
RECURSIVE Up(_, _)
Up(n, k) == IF k = 0 \/ n = NullPtr THEN n ELSE Up(nodes[n].parent_, k - 1)

\* C25: after the construction the root's parent link is null and every
\* non-null child of a node N has parent link N; so every other node is the
\* left or the right child of the node its parent link names, and the
\* parent links lead from every node to the root.
C25_ParentLinks ==
  Built =>
    /\ nodes[1].parent_ = NullPtr
    /\ \A n \in DOMAIN nodes : \A c \in Children(n) : nodes[c].parent_ = n
    /\ \A n \in DOMAIN nodes \ {1} :
         /\ nodes[n].parent_ \in DOMAIN nodes
         /\ n \in Children(nodes[n].parent_)
    /\ \A n \in DOMAIN nodes : \E k \in 0..Len(nodes) : Up(n, k) = 1

\* a built tree in which a node two links below the root has its parent's
\* parent equal to the root
C25_Witness ==
  /\ mode = "built"
  /\ Len(nodes) >= 4
  /\ \E n \in DOMAIN nodes :
       /\ nodes[n].parent_ \notin {NullPtr, 1}
       /\ Up(n, 2) = 1
       /\ nodes[nodes[n].parent_].right_child_ = n

\* findNN has called findNN_ on the root, which has not evaluated a distance
SearchEntered == mode = "pruned" /\ trace = << >>

\* C26: the pruned search starts, before any node is visited, with the
\* running best point equal to the root's point and the running best squared
\* distance equal to the squared distance from the root's point to the query.
C26_BestStartsAtRoot ==
  (SearchEntered /\ MatchingQuery) =>
    /\ best_point = 1
    /\ best_dist = SqDist(NodeCoords(1), QueryCoords)

\* C26, amended: the pruned search starts, before any node is visited, with
\* the running best point equal to the root's point and the running best
\* squared distance equal to the largest value of T.
C26_BestStartsAtMax ==
  SearchEntered =>
    /\ best_point = 1
    /\ best_dist = TMax
    /\ stack = << [node |-> 1, d |-> 0, farther |-> NullPtr, pc |-> "visit"] >>

\* findNN has been called with a matching query on a tree of three or more
\* nodes and no node has been visited yet
C26_Witness ==
  /\ SearchEntered
  /\ MatchingQuery
  /\ Len(nodes) >= 3
  /\ best_dist # SqDist(NodeCoords(1), QueryCoords)

\* a constructor of KDTree<T,k> is about to return: its node is complete
KDNodeDone(i) == mode \in {"kd_constructing", "kd_built"} /\ stack[i].pc = "ret"

\* C27: in the fixed-dimension variant KDTree<T,k> a node constructed from a
\* range of length n has a non-null left child exactly when n >= 2 and a
\* non-null right child exactly when n >= 3; a node built from two points
\* keeps its left child.
C27_FixedKeepsChildren ==
  \A i \in DOMAIN stack :
    KDNodeDone(i) =>
      LET n == stack[i].hi - stack[i].lo
          node == nodes[stack[i].node]
      IN /\ n >= 2 => node.left_child_ # NullPtr
         /\ n < 2 => node.left_child_ = NullPtr
         /\ n >= 3 <=> node.right_child_ # NullPtr

\* the number of nodes of the subtree below the child link c
SizeBelow(c) == Cardinality(Subtree(nodes, c))

\* C28: in a built tree every node with a right child has a left child, and
\* its left subtree has as many nodes as its right subtree or one more; so
\* the left-only descent of advance inside a right subtree ends at a node
\* without children, and begin() never takes its step to the right child.
C28_LeftHeavy ==
  Built =>
    /\ \A n \in DOMAIN nodes :
         /\ nodes[n].right_child_ # NullPtr => nodes[n].left_child_ # NullPtr
         /\ SizeBelow(nodes[n].left_child_) - SizeBelow(nodes[n].right_child_)
              \in {0, 1}
         /\ nodes[n].right_child_ # NullPtr =>
              Children(DescendLeft(nodes, nodes[n].right_child_)) = {}
    /\ Begin(nodes) = DescendLeft(nodes, 1)

\* a built tree with a node whose subtrees have three and two nodes and a
\* node whose subtrees have one node each
C28_Witness ==
  /\ Built
  /\ \E n, m \in DOMAIN nodes :
       /\ SizeBelow(nodes[n].left_child_) = 3
       /\ SizeBelow(nodes[n].right_child_) = 2
       /\ SizeBelow(nodes[m].left_child_) = 1
       /\ SizeBelow(nodes[m].right_child_) = 1
       /\ nodes[nodes[n].right_child_].left_child_ # NullPtr

\* the slot holds a point that owns its coordinates
HoldsPoint(p) == p.dims_ > 0 /\ p.data_ \in DOMAIN heap

\* C29: during the construction no moved-from point (dims 0) is read: the
\* ranges handed to the calls for the children leave out the slot whose
\* point was moved into the node, so every range still to be validated or
\* sorted holds only points with their coordinates, and an input of points
\* of one size never ends in an index-out-of-range error.
C29_NoMovedFromRead ==
  /\ mode = "constructing" =>
       /\ \A i \in DOMAIN stack :
            stack[i].pc \in {"validate", "split"} =>
              \A j \in stack[i].lo..(stack[i].hi - 1) : HoldsPoint(points[j])
       /\ \A i \in 2..Len(stack) :
            /\ points[stack[i - 1].median] = MovedFrom
            /\ stack[i - 1].median \notin stack[i].lo..(stack[i].hi - 1)
            /\ stack[i].lo >= stack[i - 1].lo
            /\ stack[i].hi <= stack[i - 1].hi
  /\ ~MixedDims => mode # "out_of_range"

\* the call for a child is about to sort a range of two points after the
\* root's point was moved out of the slot next to the range
C29_Witness ==
  /\ mode = "constructing"
  /\ Len(stack) = 2
  /\ Top.pc = "split"
  /\ Top.hi - Top.lo >= 2
  /\ points[stack[1].median] = MovedFrom
  /\ stack[1].pc = "right_ret"
  /\ Top.lo = stack[1].median + 1

\* C30: on a built tree of n nodes the pruned search for a query of
\* matching dims terminates, and it evaluates the distance of each node at
\* most once (at most n evaluations); the root is the first node visited and
\* a node is visited only after its parent.
C30_SearchBounded ==
  /\ [](mode = "pruned" \/ nnPruned.state = "returned" =>
          /\ Len(trace) <= Len(nodes)
          /\ \A i, j \in DOMAIN trace : trace[i] = trace[j] => i = j
          /\ trace # << >> => trace[1] = 1
          /\ \A i \in 2..Len(trace) :
               \E j \in 1..(i - 1) : trace[j] = nodes[trace[i]].parent_
          /\ nnPruned.state = "returned" => trace # << >>)
  /\ [][(mode = "pruned" /\ mode' # "pruned" /\ MatchingQuery) =>
          (mode' = "built" /\ nnPruned'.state = "returned")]_vars
  /\ []<>(mode # "pruned")

\* a search of the six-node tree has ended after visiting some nodes but
\* not all of them
C30_Witness ==
  /\ MatchingQuery
  /\ nnPruned.state = "returned"
  /\ Len(nodes) = 6
  /\ Len(trace) >= 3
  /\ Len(trace) < 6

====
